---- MODULE Spec2Model ----
(***************************************************************************)
(* karaoke.py: word timings -> subtitle lines (chunk_words) -> highlight   *)
(* box and caption directives with time gates (main).                      *)
(*                                                                         *)
(* Texts are sequences of one-character strings.  Pixel widths are counted *)
(* in character advances of the monospaced default font, so the width of a *)
(* string is its length.  Times are counted in ticks, TicksPerSecond ticks *)
(* to the second; the ':.3f' of the time gates prints such times exactly.  *)
(* A directive keeps its kind, its line, its time gate and, for a box, the *)
(* word it belongs to; the pixel geometry is left out.                     *)
(***************************************************************************)
EXTENDS Integers, Sequences, FiniteSets

VARIABLES
    segs,          \* data['segments']: a sequence of word lists
    max_len,       \* args.max_words
    max_px_width,  \* max_pixel_width = W * (args.max_width / 100)
    pc,            \* position of main
    si,            \* index of the segment the loop of line 100 is at
    words,         \* words of the segment handed to chunk_words
    wi,            \* index of the word the loop of line 63 is at
    chunks,        \* chunk_words: closed lines
    curr,          \* chunk_words: the line being filled
    all_chunks,    \* main: lines of all segments
    ci,            \* index of the line the loop of line 107 is at
    filters,       \* main: directives emitted so far
    written,       \* the filter graph file has been written
    printed        \* the ffmpeg command line has been printed

vars == <<segs, max_len, max_px_width, pc, si, words, wi, chunks, curr,
          all_chunks, ci, filters, written, printed>>

-----------------------------------------------------------------------------
(* Bounds of the model *)

MaxWords == 3        \* words of a document (chunking and field runs)
MaxTimedWords == 3   \* words of a document whose times vary
MaxSegs == 2         \* segments of a document
MaxTime == 3         \* latest time, in ticks
TicksPerSecond == 2  \* resolution of the time axis

-----------------------------------------------------------------------------
(* Helpers on sequences *)

RECURSIVE SumSeq(_)
SumSeq(s) == IF s = <<>> THEN 0 ELSE s[1] + SumSeq(Tail(s))

RECURSIVE Flatten(_)
Flatten(ss) == IF ss = <<>> THEN <<>> ELSE ss[1] \o Flatten(Tail(ss))

Front(s) == SubSeq(s, 1, Len(s) - 1)

Last(s) == s[Len(s)]

-----------------------------------------------------------------------------
(* Text and the text-metrics provider *)

\* ' '.join(w['word'] for w in ws)
RECURSIVE JoinWords(_)
JoinWords(ws) ==
    IF ws = <<>> THEN <<>>
    ELSE IF Len(ws) = 1 THEN ws[1].word
    ELSE ws[1].word \o <<" ">> \o JoinWords(Tail(ws))

\* font.getsize(text)[0], in character advances of the monospaced font
getsize(text) == Len(text)

\* text.endswith(('.', '?', '!'))
EndsWithPunct(text) == Len(text) > 0 /\ text[Len(text)] \in {".", "?", "!"}

\* a dict lookup wd[key] raises KeyError when the key is absent
HasKey(wd, key) == key \in wd.keys

-----------------------------------------------------------------------------
(* chunk_words *)

\* line 70, mutated: a two-word line is never split
WidthOverflowOffByOne(c, maxpx) == getsize(JoinWords(c)) > maxpx /\ Len(c) > 2

\* line 70: the line is too long and is not a single long word
WidthOverflow(c, maxpx) == getsize(JoinWords(c)) > maxpx /\ Len(c) > 1

\* line 76, mutated: the count test is off by one
ClosesLineOffByOne(wd, c, maxlen) == EndsWithPunct(wd.word) \/ Len(c) > maxlen

\* line 76, mutated: punctuation does not close a line
ClosesLineNoPunct(wd, c, maxlen) == Len(c) >= maxlen

\* line 76: punctuation or max words reached
ClosesLine(wd, c, maxlen) == EndsWithPunct(wd.word) \/ Len(c) >= maxlen

\* lines 72-74, mutated: the rolled-back word is lost
RollbackDropsWord(cs, c) == [chunks |-> Append(cs, Front(c)), curr |-> <<>>]

\* lines 72-74: close the line without the last word, restart with it
Rollback(cs, c) == [chunks |-> Append(cs, Front(c)), curr |-> <<Last(c)>>]

\* lines 65-78 for one word wd whose 'word' key is present
ChunkIteration(cs, cu, wd, maxlen, maxpx) ==
    LET c == Append(cu, wd) IN
    IF WidthOverflow(c, maxpx) THEN Rollback(cs, c)
    ELSE IF ClosesLine(wd, c, maxlen) THEN [chunks |-> Append(cs, c), curr |-> <<>>]
    ELSE [chunks |-> cs, curr |-> c]

\* lines 79-81: the lines chunk_words returns
ChunkResult(cs, cu) == IF cu # <<>> THEN Append(cs, cu) ELSE cs

-----------------------------------------------------------------------------
(* main: the loop over the segments, lines 100-104 *)

\* line 101, mutated: the segments are flattened into one word list
SegWordsFlattened(ss, k) == IF k = 1 THEN Flatten(ss) ELSE <<>>

\* line 101: words = seg.get('words', [])
SegWords(ss, k) == ss[k]

\* lines 100-103: take the next segment; skip it when it has no words,
\* otherwise call chunk_words (line 62: chunks, curr = [], [])
NextSegment ==
    /\ pc = "segments"
    /\ si <= Len(segs)
    /\ LET ws == SegWords(segs, si) IN
       IF ws = <<>>
       THEN /\ si' = si + 1
            /\ UNCHANGED <<pc, words, wi, chunks, curr>>
       ELSE /\ pc' = "chunk"
            /\ words' = ws
            /\ wi' = 1
            /\ chunks' = <<>>
            /\ curr' = <<>>
            /\ UNCHANGED si
    /\ UNCHANGED <<segs, max_len, max_px_width, all_chunks, ci, filters,
                   written, printed>>

\* lines 63-78: one iteration of the loop of chunk_words; line 66 raises
\* KeyError when the appended word has no 'word' key
ChunkStep ==
    /\ pc = "chunk"
    /\ wi <= Len(words)
    /\ LET wd == words[wi] IN
       IF ~HasKey(wd, "word")
       THEN /\ pc' = "failed"
            /\ curr' = Append(curr, wd)
            /\ UNCHANGED <<chunks, wi>>
       ELSE LET r == ChunkIteration(chunks, curr, wd, max_len, max_px_width) IN
            /\ chunks' = r.chunks
            /\ curr' = r.curr
            /\ wi' = wi + 1
            /\ UNCHANGED pc
    /\ UNCHANGED <<segs, max_len, max_px_width, si, words, all_chunks, ci,
                   filters, written, printed>>

\* lines 79-81 and 104: chunk_words returns, all_chunks.extend(...)
ChunkReturn ==
    /\ pc = "chunk"
    /\ wi > Len(words)
    /\ all_chunks' = all_chunks \o ChunkResult(chunks, curr)
    /\ chunks' = ChunkResult(chunks, curr)
    /\ si' = si + 1
    /\ pc' = "segments"
    /\ UNCHANGED <<segs, max_len, max_px_width, words, wi, curr, ci, filters,
                   written, printed>>

\* line 106: the loop over the segments is over
SegmentsDone ==
    /\ pc = "segments"
    /\ si > Len(segs)
    /\ pc' = "layout"
    /\ ci' = 1
    /\ UNCHANGED <<segs, max_len, max_px_width, si, words, wi, chunks, curr,
                   all_chunks, filters, written, printed>>

-----------------------------------------------------------------------------
(* main: the loop over the lines, lines 107-151 *)

\* lines 109-113: the characters drawtext treats as syntax are escaped
EscapeChar(c) ==
    IF c = "\\" THEN <<"\\", "\\">>
    ELSE IF c = "'" THEN <<"RIGHT_QUOTE">>
    ELSE IF c = "," THEN <<"\\", ",">>
    ELSE IF c = ":" THEN <<"\\", ":">>
    ELSE IF c = "%" THEN <<" ", "p", "e", "r", "c", "e", "n", "t">>
    ELSE <<c>>

RECURSIVE Escape(_)
Escape(text) ==
    IF text = <<>> THEN <<>> ELSE EscapeChar(text[1]) \o Escape(Tail(text))

\* line 122: the look-ahead threshold, 1.0 second
GapThreshold == 1 * TicksPerSecond

\* lines 116-123, mutated: the caption is never extended
CaptionEndNoLookAhead(ac, k) == Last(ac[k]).end

\* lines 116-123: et, the end of the caption window of line k
CaptionEnd(ac, k) ==
    LET et == Last(ac[k]).end IN
    IF k + 1 <= Len(ac)
    THEN LET next_st == ac[k + 1][1].start IN
         IF next_st - et < GapThreshold THEN next_st ELSE et
    ELSE et

\* line 129, mutated: a word's highlight ends at its own end
HighlightEndOwnEnd(chunk, j) == chunk[j].end

\* line 129: e_t, the end of the highlight window of word j of the line
HighlightEnd(chunk, j) ==
    IF j + 1 <= Len(chunk) THEN chunk[j + 1].start ELSE Last(chunk).end

\* ffmpeg's between(t, a, b) of the enable option: a <= t <= b
Between(t, a, b) == a <= t /\ t <= b

\* lines 135-139: the drawbox directive of word j of line k
BoxDirective(chunk, j, k) ==
    [kind |-> "drawbox", line |-> k, wd |-> chunk[j].id,
     from |-> chunk[j].start, until |-> HighlightEnd(chunk, j)]

\* lines 143-151: the drawtext directive of line k
TextDirective(ac, k) ==
    [kind |-> "drawtext", line |-> k, text |-> Escape(JoinWords(ac[k])),
     from |-> ac[k][1].start, until |-> CaptionEnd(ac, k)]

\* lines 116-121: the keys read before the loop over the words are present
HeaderKeysPresent(ac, k) ==
    /\ HasKey(ac[k][1], "start")
    /\ HasKey(Last(ac[k]), "end")
    /\ k + 1 <= Len(ac) => HasKey(ac[k + 1][1], "start")

\* line 129: the words j whose iteration raises KeyError on chunk[j+1]['start']
\* (wd['start'] of line 127 was read by line 116 or by the iteration before)
FailingWords(chunk) ==
    {j \in 1..Len(chunk) : j + 1 <= Len(chunk) /\ ~HasKey(chunk[j + 1], "start")}

Min(S) == CHOOSE x \in S : \A y \in S : x <= y

\* lines 126-141: the boxes appended for words 1..n of the line
Boxes(chunk, n, k) == [j \in 1..n |-> BoxDirective(chunk, j, k)]

\* lines 107-151: one iteration of the loop over the lines
LayoutChunk ==
    /\ pc = "layout"
    /\ ci <= Len(all_chunks)
    /\ LET chunk == all_chunks[ci] IN
       IF ~HeaderKeysPresent(all_chunks, ci)
       THEN /\ pc' = "failed"
            /\ UNCHANGED <<filters, ci>>
       ELSE IF FailingWords(chunk) # {}
       THEN /\ pc' = "failed"
            /\ filters' = filters \o Boxes(chunk, Min(FailingWords(chunk)) - 1, ci)
            /\ UNCHANGED ci
       ELSE /\ filters' = filters \o Boxes(chunk, Len(chunk), ci)
                                  \o <<TextDirective(all_chunks, ci)>>
            /\ ci' = ci + 1
            /\ UNCHANGED pc
    /\ UNCHANGED <<segs, max_len, max_px_width, si, words, wi, chunks, curr,
                   all_chunks, written, printed>>

\* line 159: the filter graph is written, once, after the loop
WriteFilterGraph ==
    /\ pc = "layout"
    /\ ci > Len(all_chunks)
    /\ written' = TRUE
    /\ pc' = "print"
    /\ UNCHANGED <<segs, max_len, max_px_width, si, words, wi, chunks, curr,
                   all_chunks, ci, filters, printed>>

\* line 171: the command line is printed
PrintCommand ==
    /\ pc = "print"
    /\ printed' = TRUE
    /\ pc' = "done"
    /\ UNCHANGED <<segs, max_len, max_px_width, si, words, wi, chunks, curr,
                   all_chunks, ci, filters, written>>

-----------------------------------------------------------------------------
(* Input documents *)

AllKeys == {"word", "start", "end"}

\* word texts: a plain word, a word closing a sentence, a wide word
Texts == {<<"a">>, <<"a", ".">>, <<"a", "a", "a", "a">>}

\* a max pixel width no line of MaxWords words exceeds
WideBudget == 5 * MaxWords

\* max pixel widths, in character advances
WidthBudgets == {3, 5, WideBudget}

\* max words per line of the runs whose times vary
TimedMaxLens == {1, 2}

\* lists of at most MaxSegs segment lengths adding up to n
SegLengths(n) ==
    {l \in UNION {[1..k -> 0..n] : k \in 0..MaxSegs} : SumSeq(l) = n}

\* the document whose segments have the lengths lens and whose words, in
\* order, are ws; id is the place of the word object in the document
MakeDoc(ws, lens) ==
    [k \in 1..Len(lens) |->
        [p \in 1..lens[k] |->
            LET w == ws[SumSeq(SubSeq(lens, 1, k - 1)) + p] IN
            [id |-> <<k, p>>, keys |-> w.keys, word |-> w.word,
             start |-> w.start, end |-> w.end]]]

\* words that differ in their text, one tick each, one after the other
TextWords(n) ==
    {[j \in 1..n |-> [keys |-> AllKeys, word |-> t[j], start |-> j - 1, end |-> j]] :
        t \in [1..n -> Texts]}

\* a word's times: start <= end
TimeSpans == {p \in (0..MaxTime) \X (0..MaxTime) : p[1] <= p[2]}

\* words that differ in their times, in the order of their starts
TimedWords(n) ==
    {[j \in 1..n |-> [keys |-> AllKeys, word |-> <<"a">>, start |-> se[j][1], end |-> se[j][2]]] :
        se \in {f \in [1..n -> TimeSpans] : \A j \in 1..(n - 1) : f[j][1] <= f[j + 1][1]}}

\* words that may lack one of their fields
FieldWords(n) ==
    {[j \in 1..n |-> [keys |-> ks[j], word |-> <<"a">>, start |-> j - 1, end |-> j]] :
        ks \in [1..n -> {AllKeys} \cup {AllKeys \ {f} : f \in AllKeys}]}

InitRun ==
    /\ pc = "segments"
    /\ si = 1
    /\ words = <<>>
    /\ wi = 1
    /\ chunks = <<>>
    /\ curr = <<>>
    /\ all_chunks = <<>>
    /\ ci = 1
    /\ filters = <<>>
    /\ written = FALSE
    /\ printed = FALSE

Init ==
    /\ InitRun
    /\ \/ \E n \in 0..MaxWords : \E ws \in TextWords(n) : \E lens \in SegLengths(n) :
            /\ segs = MakeDoc(ws, lens)
            /\ max_len \in 0..MaxWords
            /\ max_px_width \in WidthBudgets
       \/ \E n \in 1..MaxTimedWords : \E ws \in TimedWords(n) : \E lens \in SegLengths(n) :
            /\ segs = MakeDoc(ws, lens)
            /\ max_len \in TimedMaxLens
            /\ max_px_width = WideBudget
       \/ \E n \in 1..MaxWords : \E ws \in FieldWords(n) : \E lens \in SegLengths(n) :
            /\ segs = MakeDoc(ws, lens)
            /\ max_len \in 1..MaxWords
            /\ max_px_width = WideBudget

Next ==
    \/ NextSegment
    \/ ChunkStep
    \/ ChunkReturn
    \/ SegmentsDone
    \/ LayoutChunk
    \/ WriteFilterGraph
    \/ PrintCommand

Spec == Init /\ [][Next]_vars

-----------------------------------------------------------------------------
(* Views of the state the properties are stated on *)

\* chunk_words has returned for the word list in words
ChunkWordsReturned == words # <<>> /\ pc # "chunk" /\ wi > Len(words)

\* the lines closed so far: those of the segments done, and inside
\* chunk_words those it has closed
ClosedLines == IF pc = "chunk" THEN all_chunks \o chunks ELSE all_chunks

\* line k of cs was closed by the width test: the word that follows it did
\* not fit
ClosedByWidth(cs, k) ==
    /\ k + 1 <= Len(cs)
    /\ cs[k][1].id[1] = cs[k + 1][1].id[1]
    /\ getsize(JoinWords(Append(cs[k], cs[k + 1][1]))) > max_px_width

\* the directives of line k
DirectivesOf(kind, k) ==
    {n \in DOMAIN filters : filters[n].kind = kind /\ filters[n].line = k}

\* the lines whose directives are all emitted
EmittedLines == {k \in DOMAIN all_chunks : DirectivesOf("drawtext", k) # {}}

\* a word of a segment with words lacks one of its fields
Malformed ==
    \E k \in DOMAIN segs : \E p \in DOMAIN segs[k] : segs[k][p].keys # AllKeys

-----------------------------------------------------------------------------
(* C1 *)

\* C1: the lines chunk_words returns, concatenated in order, are its input
\* word list; inside the loop the closed lines followed by the line being
\* filled are the words read so far, also after a width-triggered rollback.
C1_Concatenation ==
    /\ ChunkWordsReturned => Flatten(chunks) = words
    /\ pc = "chunk" => Flatten(chunks) \o curr = SubSeq(words, 1, wi - 1)

\* chunk_words has returned lines of which one was closed by a rollback
C1_Witness ==
    /\ ChunkWordsReturned
    /\ pc = "done"
    /\ \E k \in DOMAIN chunks : ClosedByWidth(chunks, k)

(* C2 *)

\* C2: every closed line is non-empty and, when max_len >= 1, has at most
\* max_len words, in every state of the chunking loop.
C2_LineLength ==
    \A k \in DOMAIN ClosedLines :
        /\ Len(ClosedLines[k]) >= 1
        /\ max_len >= 1 => Len(ClosedLines[k]) <= max_len

\* a line that begins with a rolled-back word was filled up to max_len
C2_Witness ==
    /\ pc = "chunk"
    /\ max_len >= 2
    /\ \E k \in DOMAIN chunks :
        /\ ClosedByWidth(chunks, k)
        /\ k + 1 <= Len(chunks)
        /\ Len(chunks[k + 1]) = max_len

(* C3 *)

\* C3: when a word of a segment with words lacks word, start or end, the
\* run fails: the filter graph file is never written, no command line is
\* printed, the run does not end normally.
C3_MalformedNeverWritten ==
    Malformed => ~written /\ ~printed /\ pc # "done"

(* C4 *)

\* C4: for every emitted line and every instant t from its first word's start
\* to its last word's end, exactly one of the line's drawbox gates
\* between(t, from, until) is true.
C4_ExactlyOneBox ==
    \A k \in EmittedLines :
        \A t \in (all_chunks[k][1].start)..(Last(all_chunks[k]).end) :
            Cardinality({n \in DirectivesOf("drawbox", k) :
                Between(t, filters[n].from, filters[n].until)}) = 1

(* C5 *)

\* C5: the caption window of a line ends at or after the line's last word's
\* end, and after it only when the next line starts less than 1.0 second
\* after that end.
C5_NeverShortens ==
    \A k \in EmittedLines : \A n \in DirectivesOf("drawtext", k) :
        LET nominal == Last(all_chunks[k]).end IN
        /\ filters[n].until >= nominal
        /\ filters[n].until > nominal =>
              /\ k + 1 <= Len(all_chunks)
              /\ all_chunks[k + 1][1].start - nominal < GapThreshold

(* C6 *)

C7_HighlightWindow ==
    \A k \in DOMAIN all_chunks : \A n \in DirectivesOf("drawbox", k) :
        \E j \in DOMAIN all_chunks[k] :
            LET line == all_chunks[k] IN
            /\ line[j].id = filters[n].wd
            /\ filters[n].from = line[j].start
            /\ filters[n].until =
                  IF j < Len(line) THEN line[j + 1].start ELSE line[Len(line)].end

\* a two-word line whose caption is extended past its last word's end, whose
\* first word ends before the second starts
C7_Witness ==
    /\ pc = "done"
    /\ \E k \in EmittedLines :
        /\ Len(all_chunks[k]) = 2
        /\ all_chunks[k][1].end < all_chunks[k][2].start
        /\ Cardinality(DirectivesOf("drawbox", k)) = 2
        /\ \E n \in DirectivesOf("drawtext", k) :
              filters[n].until > Last(all_chunks[k]).end

(* C8 *)

\* C8, as claimed: in every closed line a word that ends with '.', '?' or
\* '!' is the last word of the line.
C8_PunctuationOnlyLast ==
    \A k \in DOMAIN ClosedLines : \A j \in DOMAIN ClosedLines[k] :
        EndsWithPunct(ClosedLines[k][j].word) => j = Len(ClosedLines[k])

\* C8, amended: in every closed line a word that ends with '.', '?' or '!'
\* is the last word of the line, or it is the first word of a line that
\* follows, in its segment, a line closed by the width test on that word.
C8_PunctuationLastOrRolledBack ==
    \A k \in DOMAIN ClosedLines : \A j \in DOMAIN ClosedLines[k] :
        EndsWithPunct(ClosedLines[k][j].word) =>
            \/ j = Len(ClosedLines[k])
            \/ /\ j = 1
               /\ k > 1
               /\ ClosedByWidth(ClosedLines, k - 1)

\* a rolled-back word that ends a sentence is followed by a word in its line,
\* and another line ends with a word that ends a sentence
C8_Witness ==
    /\ pc = "done"
    /\ \E k \in DOMAIN all_chunks :
        /\ Len(all_chunks[k]) >= 2
        /\ EndsWithPunct(all_chunks[k][1].word)
    /\ \E k \in DOMAIN all_chunks :
        /\ Len(all_chunks[k]) >= 2
        /\ EndsWithPunct(Last(all_chunks[k]).word)

(* C9 *)

\* C9: every line consists of consecutive words of one segment, and the
\* lines, in order, are the words of the segments done, in order: a segment
\* without words contributes no line.
C9_LinesWithinSegments ==
    /\ \A k \in DOMAIN all_chunks :
          LET line == all_chunks[k] IN
          /\ line # <<>>
          /\ \A j \in DOMAIN line :
                /\ line[j].id[1] = line[1].id[1]
                /\ line[j].id[2] = line[1].id[2] + j - 1
    /\ Flatten(all_chunks) = Flatten(SubSeq(segs, 1, si - 1))

\* two segments with words, the last line of the first one shorter than
\* max_len and not ended by punctuation, the second one fitting beside it
C9_Witness ==
    /\ pc = "done"
    /\ Len(segs) = 2
    /\ segs[1] # <<>>
    /\ segs[2] # <<>>
    /\ \E k \in DOMAIN all_chunks :
        /\ k + 1 <= Len(all_chunks)
        /\ all_chunks[k][1].id[1] = 1
        /\ all_chunks[k + 1][1].id[1] = 2
        /\ Len(all_chunks[k]) < max_len
        /\ ~EndsWithPunct(Last(all_chunks[k]).word)
        /\ getsize(JoinWords(Append(all_chunks[k], all_chunks[k + 1][1]))) <= max_px_width

(* C10 *)

\* C10: every closed line of more than one word is at most max_px_width
\* wide; only one-word lines exceed it.
C10_WidthBudget ==
    \A k \in DOMAIN ClosedLines :
        Len(ClosedLines[k]) > 1 =>
            getsize(JoinWords(ClosedLines[k])) <= max_px_width

\* the run ends normally with a one-word line wider than the budget and a
\* line of several words within it
C10_Witness ==
    /\ pc = "done"
    /\ \E k \in DOMAIN all_chunks :
        /\ Len(all_chunks[k]) = 1
        /\ getsize(JoinWords(all_chunks[k])) > max_px_width
    /\ \E k \in DOMAIN all_chunks : Len(all_chunks[k]) > 1

====
